---- MODULE Spec2Model ----
(***************************************************************************)
(* A model of excel-poc: main fetches a list of stock entries over HTTP    *)
(* (StockService.FetchStockData) and writes them to a spreadsheet          *)
(* (ExcelGenerator.GenerateExcelFile).  The repository holds two versions  *)
(* of the program: main.go writes the sheet cell by cell in memory         *)
(* ("memory"), unnamed/part_000 writes it through a stream writer          *)
(* ("stream").  FetchStockData and main are the same in both.              *)
(*                                                                         *)
(* The network, the file system and the excelize library are the           *)
(* environment.  A call whose error the program checks may fail at the     *)
(* environment's choice.  A call whose error the program discards          *)
(* (SetCellValue, SetSheetName in main.go) is modelled by what excelize    *)
(* does: a cell write fails exactly when its row lies beyond the sheet's   *)
(* row limit (excelize TotalRows, 1048576, scaled down to MaxSheetRows).   *)
(* Floating point values are modelled as integers (tenths).                *)
(***************************************************************************)
EXTENDS Integers, Sequences, FiniteSets, TLC

VARIABLES
    run,        \* number of the current program run (the operator may re-run)
    variant,    \* which version of the program this run executes
    pc,         \* position of the run in main / FetchStockData / GenerateExcelFile
    resp,       \* the HTTP response returned by http.Get
    bodyState,  \* resp.Body: "none", "open" or "closed"
    getCount,   \* HTTP GETs issued by this run
    closeCount, \* resp.Body.Close() calls made by this run
    fetchErr,   \* error returned by FetchStockData ("none" on success)
    stocks,     \* []StockData returned by FetchStockData
    wbSheet,    \* name of the single sheet of the workbook f ("none": no workbook)
    wbCells,    \* cells of that sheet: <<col, row>> -> cell
    sw,         \* streamWriter: "none", "open" or "flushed"
    swRows,     \* cells buffered in the stream writer, not yet in the workbook
    col,        \* header loop variable (main.go:76)
    i,          \* data loop variable (main.go:81, part_000:91)
    genErr,     \* error returned by GenerateExcelFile ("none" on success)
    dirExists,  \* file system: the directory filepath.Dir(e.filePath) exists
    file,       \* file system: the file at e.filePath
    stdout,     \* lines printed by fmt.Println
    log,        \* messages of log.Fatalf
    exitCode,   \* exit status of the process (-1 while it runs)
    trace,      \* history: the environment calls of this run, in order
    faults,     \* history: the writer steps that failed in this run, <<kind, row>>
    startFs,    \* history: the file system when this run started
    prev        \* history: summary of the previous run (recorded in SpecPairs)

vars == <<run, variant, pc, resp, bodyState, getCount, closeCount, fetchErr,
          stocks, wbSheet, wbCells, sw, swRows, col, i, genErr, dirExists,
          file, stdout, log, exitCode, trace, faults, startFs, prev>>

(***************************************************************************)
(* Bounds of the model.                                                    *)
(***************************************************************************)
MaxEntries == 3
MaxRuns == 2
MaxSheetRows == 3

(***************************************************************************)
(* Constants of the program.                                               *)
(***************************************************************************)
sheetName == "Stock Data"
dataDir == "data"
excelFile == "stock_data.xlsx"
DefaultSheet == "Sheet1"
StatusOK == 200
headers == <<"Ticker", "Ticker Name", "Latest Price", "Points Change",
             "Percentage Change", "Traded Of Mkt Cap">>
Variants == {"memory", "stream"}

\* NewExcelGenerator: filePath = filepath.Join(directory, filename)
NewExcelGenerator(directory, filename) == <<directory, filename>>
filePath == NewExcelGenerator(dataDir, excelFile)

(***************************************************************************)
(* Data.                                                                   *)
(***************************************************************************)
\* The JSON objects the API may send under "response".
JsonEntries ==
    { [ticker |-> "ABC", ticker_name |-> "Alpha", latest_price |-> "120.5",
       points_change |-> 12, percentage_change |-> 5, traded_of_mkt_cap |-> 31],
      [ticker |-> "XYZ", ticker_name |-> "Xylo", latest_price |-> "7",
       points_change |-> 0 - 3, percentage_change |-> 0 - 40, traded_of_mkt_cap |-> 0] }

SeqsUpTo(S, n) == UNION { [1..k -> S] : k \in 0..n }

\* Response bodies: a well-formed {"response": [...]} object, or malformed text.
Bodies ==
    { [kind |-> "object", response |-> s] : s \in SeqsUpTo(JsonEntries, MaxEntries) }
    \cup { [kind |-> "malformed", response |-> << >>] }

\* What the server may answer: 200 with any body, or an error status.
Responses ==
    { [status |-> StatusOK, body |-> b] : b \in Bodies }
    \cup { [status |-> 404, body |-> [kind |-> "malformed", response |-> << >>]] }

NoResponse == [status |-> 0, body |-> [kind |-> "malformed", response |-> << >>]]

\* struct StockData, filled from a JSON object by the json tags.
StockData(j) ==
    [Ticker |-> j.ticker, TickerName |-> j.ticker_name, LatestPrice |-> j.latest_price,
     PointsChange |-> j.points_change, PercentageChange |-> j.percentage_change,
     TradedOfMktCap |-> j.traded_of_mkt_cap]

\* json.Decoder.Decode into StockAPIResponse, then .Response
DecodeBody(b) == [k \in 1..Len(b.response) |-> StockData(b.response[k])]

(***************************************************************************)
(* The workbook.                                                           *)
(***************************************************************************)
EmptyCells == [k \in {} |-> 0]

\* A cell keeps the type of the Go value written to it.
TextCell(s) == [t |-> "text", s |-> s, n |-> 0]
NumberCell(n) == [t |-> "number", s |-> "", n |-> n]

Put(cells, c, r, v) ==
    [k \in DOMAIN cells \cup {<<c, r>>} |-> IF k = <<c, r>> THEN v ELSE cells[k]]

\* excelize accepts a cell reference only within the sheet's rows.
RowInSheet(r) == r >= 1 /\ r <= MaxSheetRows

\* f.SetCellValue(sheet, cell, value): writes the cell, or returns an error
\* and leaves the workbook alone.
SetCellValueOK(sheet, r) == sheet = wbSheet /\ RowInSheet(r)
SetCellValue(cells, sheet, c, r, v) ==
    IF SetCellValueOK(sheet, r) THEN Put(cells, c, r, v) ELSE cells

\* The six values of one data row, in column order.
rowData(stock) ==
    << TextCell(stock.Ticker), TextCell(stock.TickerName), TextCell(stock.LatestPrice),
       NumberCell(stock.PointsChange), NumberCell(stock.PercentageChange),
       NumberCell(stock.TradedOfMktCap) >>

headerRow == [c \in 1..Len(headers) |-> TextCell(headers[c])]

RECURSIVE PutRow(_, _, _, _, _)
\* writes values[c..] into row r of sheet, one SetCellValue per column
PutRow(cells, sheet, r, values, c) ==
    IF c > Len(values) THEN cells
    ELSE PutRow(SetCellValue(cells, sheet, c, r, values[c]), sheet, r, values, c + 1)

\* streamWriter.SetRow(cell, values): buffers a whole row starting at column A.
SetRow(rows, r, values) ==
    [k \in DOMAIN rows \cup { <<c, r>> : c \in 1..Len(values) } |->
        IF k[2] = r /\ k[1] \in 1..Len(values) THEN values[k[1]] ELSE rows[k]]

NoFile == [state |-> "absent", sheet |-> "none", cells |-> EmptyCells]
PartialFile == [state |-> "partial", sheet |-> "none", cells |-> EmptyCells]

Event(op, ok) == [op |-> op, ok |-> ok]

NoPrev == [valid |-> FALSE, variant |-> "memory", stocks |-> << >>, fetchErr |-> "none",
           faults |-> {}, exitCode |-> 0, file |-> NoFile]

(***************************************************************************)
(* Initial state: the first run is about to start on a fresh checkout      *)
(* (no data directory, no file); later runs start from what earlier runs   *)
(* left on disk.                                                           *)
(***************************************************************************)
Init ==
    /\ run = 1
    /\ variant \in Variants
    /\ pc = "main"
    /\ resp = NoResponse
    /\ bodyState = "none"
    /\ getCount = 0
    /\ closeCount = 0
    /\ fetchErr = "none"
    /\ stocks = << >>
    /\ wbSheet = "none"
    /\ wbCells = EmptyCells
    /\ sw = "none"
    /\ swRows = EmptyCells
    /\ col = 0
    /\ i = 0
    /\ genErr = "none"
    /\ dirExists = FALSE
    /\ file = NoFile
    /\ stdout = << >>
    /\ log = << >>
    /\ exitCode = -1
    /\ trace = << >>
    /\ faults = {}
    /\ startFs = [dir |-> dirExists, file |-> file]
    /\ prev = NoPrev

fetchVars == <<resp, bodyState, getCount, closeCount, fetchErr, stocks>>
bookVars == <<wbSheet, wbCells, sw, swRows, col, i>>
fsVars == <<dirExists, file>>
outVars == <<stdout, log, exitCode>>
runVars == <<run, variant, startFs, prev>>

(***************************************************************************)
(* StockService.FetchStockData                                             *)
(***************************************************************************)
\* http.Get(s.apiURL): a transport error returns at once (no response, no
\* deferred Close); otherwise the response is held and its Close is deferred.
HttpGet ==
    /\ pc = "main"
    /\ getCount' = getCount + 1
    /\ \/ /\ fetchErr' = "transport"
          /\ pc' = "fetched"
          /\ trace' = Append(trace, Event("get", FALSE))
          /\ UNCHANGED <<resp, bodyState>>
       \/ \E r \in Responses :
          /\ resp' = r
          /\ bodyState' = "open"
          /\ pc' = "status"
          /\ trace' = Append(trace, Event("get", TRUE))
          /\ UNCHANGED fetchErr
    /\ UNCHANGED <<closeCount, stocks, genErr, faults>>
    /\ UNCHANGED <<bookVars, fsVars, outVars, runVars>>

\* the deferred resp.Body.Close(), run when FetchStockData returns
DeferredClose ==
    /\ bodyState' = "closed"
    /\ closeCount' = closeCount + 1

\* CheckStatus with the Close deferred only after the status check
CheckStatusMissingClose ==
    /\ pc = "status"
    /\ IF resp.status # StatusOK
       THEN /\ fetchErr' = "status"
            /\ pc' = "fetched"
            /\ trace' = trace
            /\ UNCHANGED <<bodyState, closeCount>>
       ELSE /\ pc' = "decode"
            /\ UNCHANGED <<fetchErr, bodyState, closeCount, trace>>
    /\ UNCHANGED <<resp, getCount, stocks, genErr, faults>>
    /\ UNCHANGED <<bookVars, fsVars, outVars, runVars>>

\* resp.StatusCode != http.StatusOK: return an error (the deferred Close runs)
CheckStatus ==
    /\ pc = "status"
    /\ IF resp.status # StatusOK
       THEN /\ fetchErr' = "status"
            /\ pc' = "fetched"
            /\ DeferredClose
            /\ trace' = Append(trace, Event("close", TRUE))
       ELSE /\ pc' = "decode"
            /\ UNCHANGED <<fetchErr, bodyState, closeCount, trace>>
    /\ UNCHANGED <<resp, getCount, stocks, genErr, faults>>
    /\ UNCHANGED <<bookVars, fsVars, outVars, runVars>>

\* json.NewDecoder(resp.Body).Decode(&stockResponse), then return; the
\* deferred Close runs on either return.
Decode ==
    /\ pc = "decode"
    /\ IF resp.body.kind = "object"
       THEN /\ stocks' = DecodeBody(resp.body)
            /\ UNCHANGED fetchErr
       ELSE /\ fetchErr' = "decode"
            /\ UNCHANGED stocks
    /\ DeferredClose
    /\ trace' = trace \o << Event("decode", resp.body.kind = "object"),
                            Event("close", TRUE) >>
    /\ pc' = "fetched"
    /\ UNCHANGED <<resp, getCount, genErr, faults>>
    /\ UNCHANGED <<bookVars, fsVars, outVars, runVars>>

(***************************************************************************)
(* main, after FetchStockData                                              *)
(***************************************************************************)
\* main going on to GenerateExcelFile although the fetch failed
FatalFetchIgnored ==
    /\ pc = "fetched"
    /\ fetchErr # "none"
    /\ pc' = "newfile"
    /\ UNCHANGED <<fetchVars, bookVars, fsVars, outVars, runVars, genErr, trace, faults>>

\* if err != nil { log.Fatalf("Error fetching stock data: %v", err) }
FatalFetch ==
    /\ pc = "fetched"
    /\ fetchErr # "none"
    /\ log' = Append(log, <<"Error fetching stock data", fetchErr>>)
    /\ exitCode' = 1
    /\ pc' = "exited"
    /\ trace' = Append(trace, Event("fatal", TRUE))
    /\ UNCHANGED <<fetchVars, bookVars, fsVars, runVars, genErr, stdout, faults>>

\* excelGenerator.GenerateExcelFile(stocks) is called
CallGenerate ==
    /\ pc = "fetched"
    /\ fetchErr = "none"
    /\ pc' = "newfile"
    /\ UNCHANGED <<fetchVars, bookVars, fsVars, outVars, runVars, genErr, trace, faults>>

(***************************************************************************)
(* ExcelGenerator.GenerateExcelFile                                        *)
(***************************************************************************)
\* f.SetSheetName(source, target) on a workbook whose single sheet is cur
SetSheetName(cur, source, target) == IF cur = source THEN target ELSE cur

\* data rows starting at row 1, over the header
RowOfOverHeader(idx) == idx + 1

\* the sheet row of the entry at index idx: i+2
RowOf(idx) == idx + 2

\* a data loop that stops one entry early
MoreRowsButLast == i < Len(stocks) - 1

\* the range loop over stocks has entries left
MoreRows == i < Len(stocks)

\* history: the writer step `fault` (<<kind, row>>) failed
Fault(fault) == faults' = faults \cup {fault}

\* main.go:72-73: excelize.NewFile(), f.SetSheetName("Sheet1", sheetName)
NewFileMemory ==
    /\ pc = "newfile"
    /\ variant = "memory"
    /\ wbSheet' = SetSheetName(DefaultSheet, "Sheet1", sheetName)
    /\ wbCells' = EmptyCells
    /\ col' = 0
    /\ i' = 0
    /\ pc' = "header"
    /\ trace' = Append(trace, Event("newfile", TRUE))
    /\ UNCHANGED <<fetchVars, sw, swRows, fsVars, outVars, runVars, genErr, faults>>

\* main.go:76-79: one iteration of the header loop; the error of
\* SetCellValue is discarded.
SetHeaderCell ==
    /\ pc = "header"
    /\ variant = "memory"
    /\ col < Len(headers)
    /\ wbCells' = SetCellValue(wbCells, sheetName, col + 1, 1, TextCell(headers[col + 1]))
    /\ faults' = IF SetCellValueOK(sheetName, 1) THEN faults
                 ELSE faults \cup {<<"content", 1>>}
    /\ col' = col + 1
    /\ pc' = IF col + 1 < Len(headers) THEN "header" ELSE "rows"
    /\ trace' = Append(trace, Event("header", SetCellValueOK(sheetName, 1)))
    /\ UNCHANGED <<fetchVars, wbSheet, sw, swRows, i, fsVars, outVars, runVars, genErr>>

\* main.go:81-88: one iteration of the data loop, six SetCellValue calls
\* whose errors are discarded.
SetDataCells ==
    /\ pc = "rows"
    /\ variant = "memory"
    /\ MoreRows
    /\ wbCells' = PutRow(wbCells, sheetName, RowOf(i), rowData(stocks[i + 1]), 1)
    /\ faults' = IF SetCellValueOK(sheetName, RowOf(i)) THEN faults
                 ELSE faults \cup {<<"content", RowOf(i)>>}
    /\ i' = i + 1
    /\ trace' = Append(trace, Event("row", SetCellValueOK(sheetName, RowOf(i))))
    /\ UNCHANGED <<fetchVars, wbSheet, sw, swRows, col, fsVars, outVars, runVars, genErr, pc>>

\* the streaming version going on to MkdirAll without Flush
RowsDoneNoFlush ==
    /\ pc = "rows"
    /\ ~MoreRows
    /\ pc' = "mkdir"
    /\ UNCHANGED <<fetchVars, bookVars, fsVars, outVars, runVars, genErr, trace, faults>>

\* the data loop ends: main.go goes on to MkdirAll, part_000 to Flush
RowsDone ==
    /\ pc = "rows"
    /\ ~MoreRows
    /\ pc' = IF variant = "memory" THEN "mkdir" ELSE "flush"
    /\ UNCHANGED <<fetchVars, bookVars, fsVars, outVars, runVars, genErr, trace, faults>>

\* GenerateExcelFile returns the error `kind` after the failed call `op`
ReturnError(op, kind, fault) ==
    /\ genErr' = kind
    /\ Fault(fault)
    /\ pc' = "generated"
    /\ trace' = Append(trace, Event(op, FALSE))

\* part_000:72-78: excelize.NewFile(), rename the default sheet if needed
NewFileStream ==
    /\ pc = "newfile"
    /\ variant = "stream"
    /\ wbSheet' = IF DefaultSheet # sheetName
                  THEN SetSheetName(DefaultSheet, DefaultSheet, sheetName)
                  ELSE DefaultSheet
    /\ wbCells' = EmptyCells
    /\ col' = 0
    /\ i' = 0
    /\ pc' = "streamwriter"
    /\ trace' = Append(trace, Event("newfile", TRUE))
    /\ UNCHANGED <<fetchVars, sw, swRows, fsVars, outVars, runVars, genErr, faults>>

\* part_000:81-84: f.NewStreamWriter(sheetName)
NewStreamWriter ==
    /\ pc = "streamwriter"
    /\ \E ok \in BOOLEAN :
         IF ok /\ wbSheet = sheetName
         THEN /\ sw' = "open"
              /\ swRows' = EmptyCells
              /\ pc' = "header"
              /\ trace' = Append(trace, Event("streamwriter", TRUE))
              /\ UNCHANGED <<genErr, faults>>
         ELSE /\ ReturnError("streamwriter", "failed to create stream writer", <<"stream", 0>>)
              /\ UNCHANGED <<sw, swRows>>
    /\ UNCHANGED <<fetchVars, wbSheet, wbCells, col, i, fsVars, outVars, runVars>>

\* part_000:86-89: streamWriter.SetRow("A1", headers)
SetRowHeader ==
    /\ pc = "header"
    /\ variant = "stream"
    /\ \E ok \in BOOLEAN :
         IF ok /\ RowInSheet(1)
         THEN /\ swRows' = SetRow(swRows, 1, headerRow)
              /\ pc' = "rows"
              /\ trace' = Append(trace, Event("header", TRUE))
              /\ UNCHANGED <<genErr, faults>>
         ELSE /\ ReturnError("header", "failed to write headers", <<"content", 1>>)
              /\ UNCHANGED swRows
    /\ UNCHANGED <<fetchVars, wbSheet, wbCells, sw, col, i, fsVars, outVars, runVars>>

\* part_000:91-105: one iteration of the data loop
SetRowData ==
    /\ pc = "rows"
    /\ variant = "stream"
    /\ MoreRows
    /\ \E ok \in BOOLEAN :
         IF ok /\ RowInSheet(RowOf(i))
         THEN /\ swRows' = SetRow(swRows, RowOf(i), rowData(stocks[i + 1]))
              /\ i' = i + 1
              /\ trace' = Append(trace, Event("row", TRUE))
              /\ UNCHANGED <<genErr, faults, pc>>
         ELSE /\ ReturnError("row", "failed to write row", <<"content", RowOf(i)>>)
              /\ UNCHANGED <<swRows, i>>
    /\ UNCHANGED <<fetchVars, wbSheet, wbCells, sw, col, fsVars, outVars, runVars>>

\* part_000:107-109: streamWriter.Flush() puts the buffered rows into the sheet
Flush ==
    /\ pc = "flush"
    /\ \E ok \in BOOLEAN :
         IF ok
         THEN /\ wbCells' = swRows
              /\ sw' = "flushed"
              /\ pc' = "mkdir"
              /\ trace' = Append(trace, Event("flush", TRUE))
              /\ UNCHANGED <<genErr, faults>>
         ELSE /\ ReturnError("flush", "failed to flush stream writer", <<"flush", 0>>)
              /\ UNCHANGED <<wbCells, sw>>
    /\ UNCHANGED <<fetchVars, wbSheet, swRows, col, i, fsVars, outVars, runVars>>

\* os.MkdirAll(filepath.Dir(e.filePath), os.ModePerm): nothing to do when the
\* directory exists; otherwise creating it may fail.
MkdirAll ==
    /\ pc = "mkdir"
    /\ \E ok \in BOOLEAN :
         IF dirExists \/ ok
         THEN /\ dirExists' = TRUE
              /\ pc' = "save"
              /\ trace' = Append(trace, Event("mkdir", TRUE))
              /\ UNCHANGED <<genErr, faults>>
         ELSE /\ ReturnError("mkdir", "failed to create directory", <<"mkdir", 0>>)
              /\ UNCHANGED dirExists
    /\ UNCHANGED <<fetchVars, bookVars, file, outVars, runVars>>

\* what f.SaveAs writes: the workbook, replacing whatever the path held
SavedFile == [state |-> "complete", sheet |-> wbSheet, cells |-> wbCells]

\* f.SaveAs(e.filePath): needs the directory; a failed save leaves the old
\* file or a partly written one.
SaveAs ==
    /\ pc = "save"
    /\ \E ok \in BOOLEAN :
         IF ok /\ dirExists
         THEN /\ file' = SavedFile
              /\ pc' = "notice"
              /\ trace' = Append(trace, Event("save", TRUE))
              /\ UNCHANGED <<genErr, faults>>
         ELSE /\ ReturnError("save", "failed to save Excel file", <<"save", 0>>)
              /\ \E f \in (IF dirExists THEN {file, PartialFile} ELSE {file}) : file' = f
    /\ UNCHANGED <<fetchVars, bookVars, dirExists, outVars, runVars>>

\* fmt.Println("Excel file saved at:", e.filePath); return nil
PrintSaved ==
    /\ pc = "notice"
    /\ stdout' = Append(stdout, <<"Excel file saved at:", filePath>>)
    /\ pc' = "generated"
    /\ trace' = Append(trace, Event("println", TRUE))
    /\ UNCHANGED <<fetchVars, bookVars, fsVars, log, exitCode, runVars, genErr, faults>>

(***************************************************************************)
(* main, after GenerateExcelFile                                           *)
(***************************************************************************)
\* if err != nil { log.Fatalf("Error generating Excel file: %v", err) }
FatalGenerate ==
    /\ pc = "generated"
    /\ genErr # "none"
    /\ log' = Append(log, <<"Error generating Excel file", genErr>>)
    /\ exitCode' = 1
    /\ pc' = "exited"
    /\ trace' = Append(trace, Event("fatal", TRUE))
    /\ UNCHANGED <<fetchVars, bookVars, fsVars, stdout, runVars, genErr, faults>>

\* main returns: the process exits with status 0
ExitOK ==
    /\ pc = "generated"
    /\ genErr = "none"
    /\ exitCode' = 0
    /\ pc' = "exited"
    /\ UNCHANGED <<fetchVars, bookVars, fsVars, stdout, log, runVars, genErr, trace, faults>>

\* The operator runs the program (either version) again: a new process,
\* the same file system.  `summary` is what the history keeps of the run
\* that has just exited.
StartRun(summary) ==
    /\ pc = "exited"
    /\ run < MaxRuns
    /\ run' = run + 1
    /\ variant' \in Variants
    /\ prev' = summary
    /\ startFs' = [dir |-> dirExists, file |-> file]
    /\ pc' = "main"
    /\ resp' = NoResponse
    /\ bodyState' = "none"
    /\ getCount' = 0
    /\ closeCount' = 0
    /\ fetchErr' = "none"
    /\ stocks' = << >>
    /\ wbSheet' = "none"
    /\ wbCells' = EmptyCells
    /\ sw' = "none"
    /\ swRows' = EmptyCells
    /\ col' = 0
    /\ i' = 0
    /\ genErr' = "none"
    /\ stdout' = << >>
    /\ log' = << >>
    /\ exitCode' = -1
    /\ trace' = << >>
    /\ faults' = {}
    /\ UNCHANGED fsVars

\* a re-run, keeping no history of the earlier run
Rerun == StartRun(NoPrev)

\* a re-run, the history keeping the summary of the run that has just exited
RerunRecorded ==
    StartRun([valid |-> TRUE, variant |-> variant, stocks |-> stocks,
              fetchErr |-> fetchErr, faults |-> faults, exitCode |-> exitCode,
              file |-> file])

\* the steps of the program itself
Step ==
    \/ HttpGet
    \/ CheckStatus
    \/ Decode
    \/ FatalFetch
    \/ CallGenerate
    \/ NewFileMemory
    \/ SetHeaderCell
    \/ SetDataCells
    \/ RowsDone
    \/ NewFileStream
    \/ NewStreamWriter
    \/ SetRowHeader
    \/ SetRowData
    \/ Flush
    \/ MkdirAll
    \/ SaveAs
    \/ PrintSaved
    \/ FatalGenerate
    \/ ExitOK

Next == Step \/ Rerun

Spec == Init /\ [][Next]_vars

\* The same program, the history recording each run's summary for the next.
NextPairs == Step \/ RerunRecorded

SpecPairs == Init /\ [][NextPairs]_vars

\* A started process keeps running until it exits: every call blocks until
\* it completes or errors.
FairSpec == Spec /\ WF_vars(Step)

(***************************************************************************)
(* Properties.                                                             *)
(***************************************************************************)
\* GenerateExcelFile was called and has returned nil
GenerateSucceeded ==
    /\ pc \in {"generated", "exited"}
    /\ fetchErr = "none"
    /\ genErr = "none"

\* the six cells an entry should give, column A to F
ExpectedRow(stock) ==
    << [t |-> "text", s |-> stock.Ticker, n |-> 0],
       [t |-> "text", s |-> stock.TickerName, n |-> 0],
       [t |-> "text", s |-> stock.LatestPrice, n |-> 0],
       [t |-> "number", s |-> "", n |-> stock.PointsChange],
       [t |-> "number", s |-> "", n |-> stock.PercentageChange],
       [t |-> "number", s |-> "", n |-> stock.TradedOfMktCap] >>

ExpectedLabels ==
    << "Ticker", "Ticker Name", "Latest Price", "Points Change",
       "Percentage Change", "Traded Of Mkt Cap" >>

Columns == 1..6

\* row r of cells holds exactly the six values
RowIs(cells, r, values) ==
    \A c \in Columns : <<c, r>> \in DOMAIN cells /\ cells[<<c, r>>] = values[c]

HeaderIn(cells) ==
    \A c \in Columns :
        /\ <<c, 1>> \in DOMAIN cells
        /\ cells[<<c, 1>>] = [t |-> "text", s |-> ExpectedLabels[c], n |-> 0]

RowsOf(cells) == { k[2] : k \in DOMAIN cells }

\* the file a run on the entries S should leave: header + |S| rows
ExpectedFile(S) ==
    [state |-> "complete", sheet |-> "Stock Data",
     cells |-> [k \in Columns \X (1..(Len(S) + 1)) |->
                  IF k[2] = 1 THEN [t |-> "text", s |-> ExpectedLabels[k[1]], n |-> 0]
                  ELSE ExpectedRow(S[k[2] - 1])[k[1]]]]

\* positions of the events `op` in the run's trace
At(op) == { k \in 1..Len(trace) : trace[k].op = op }

WriterOps == {"newfile", "streamwriter", "header", "row", "flush", "mkdir", "save", "println"}

\* C1: after a successful GenerateExcelFile, for every index i of the input
\* the sheet row i+2 of the saved file holds exactly that entry's six values
\* in the column order ticker, ticker_name, latest_price, points_change,
\* percentage_change, traded_of_mkt_cap.
C1_RowsPreserved ==
    GenerateSucceeded =>
        \A idx \in 0..(Len(stocks) - 1) : RowIs(file.cells, idx + 2, ExpectedRow(stocks[idx + 1]))

\* C2: when the fetch succeeds with N entries and no writer step fails, the
\* run succeeds and the saved sheet has exactly the rows 1..N+1, each with
\* its six cells (N = 0 included: header only).
C2_RowCount ==
    /\ (pc = "generated" /\ faults = {}) => genErr = "none"
    /\ (pc = "exited" /\ fetchErr = "none" /\ faults = {}) =>
          /\ exitCode = 0
          /\ file.state = "complete"
          /\ DOMAIN file.cells = Columns \X (1..(Len(stocks) + 1))

C2_Witness ==
    /\ pc = "exited" /\ exitCode = 0 /\ faults = {}
    /\ Len(stocks) = 0
    /\ RowsOf(startFs.file.cells) = {1, 2, 3}
    /\ RowsOf(file.cells) = {1}

\* C3: after any successful GenerateExcelFile row 1 of the saved sheet is
\* the six fixed labels in order, and while the data rows are being written
\* (and afterwards) no write has touched the header row.
C3_Header ==
    /\ GenerateSucceeded => HeaderIn(file.cells)
    /\ (pc \in {"rows", "flush", "mkdir", "save", "notice"}) =>
          HeaderIn(IF variant = "memory" \/ sw = "flushed" THEN wbCells ELSE swRows)

C3_Witness ==
    /\ GenerateSucceeded
    /\ Len(stocks) = 2
    /\ HeaderIn(file.cells)
    /\ RowsOf(file.cells) = {1, 2, 3}

\* C4: if FetchStockData fails, exactly one GET was issued, GenerateExcelFile
\* is never called, the file system is as the run found it, and the run
\* can only exit non-zero.
C4_FetchFailureAborts ==
    /\ getCount <= 1
    /\ fetchErr # "none" =>
          /\ getCount = 1
          /\ pc \in {"fetched", "exited"}
          /\ wbSheet = "none"
          /\ At("newfile") = {} /\ At("mkdir") = {} /\ At("save") = {}
          /\ dirExists = startFs.dir
          /\ file = startFs.file
          /\ (pc = "exited" => exitCode = 1)

C4_Witness ==
    /\ pc = "exited"
    /\ fetchErr = "status"
    /\ startFs.file.state = "complete"
    /\ file = startFs.file

\* C5: a run exits with status 0 if and only if the fetch and every writer
\* step succeeded; then the notice naming the saved path was printed exactly
\* once, after the save succeeded; on any failure a message is logged, the
\* exit status is non-zero and the notice is not printed.
C5_ExitStatus ==
    pc = "exited" =>
        /\ exitCode \in {0, 1}
        /\ (exitCode = 0) <=> (fetchErr = "none" /\ faults = {})
        /\ exitCode = 0 =>
              /\ stdout = << <<"Excel file saved at:", <<"data", "stock_data.xlsx">> >> >>
              /\ log = << >>
              /\ \A p \in At("println") : \E v \in At("save") : v < p /\ trace[v].ok
        /\ exitCode # 0 =>
              /\ Len(log) = 1
              /\ stdout = << >>

\* C6: a failed writer step (directory creation, workbook content, save)
\* makes GenerateExcelFile return an error naming that step, and no later
\* writer step is attempted after the failed one.
C6_WriterErrors ==
    /\ \A k \in 1..Len(trace) :
          (trace[k].op \in WriterOps /\ ~trace[k].ok) =>
              \A m \in (k + 1)..Len(trace) : trace[m].op \notin WriterOps
    /\ (pc \in {"generated", "exited"} /\ fetchErr = "none") =>
          \A f \in faults :
              genErr \in (CASE f[1] = "mkdir" -> {"failed to create directory"}
                            [] f[1] = "save" -> {"failed to save Excel file"}
                            [] OTHER -> {"failed to write headers", "failed to write row",
                                         "failed to create stream writer",
                                         "failed to flush stream writer"})

\* C7: after two successive successful runs on S1 then S2 the file is exactly
\* what a run on S2 alone gives, header + |S2| rows, nothing of S1; and with
\* S1 = S2 the second run leaves the file content unchanged.
C7_Overwrite ==
    (pc = "exited" /\ exitCode = 0 /\ prev.valid /\ prev.exitCode = 0) =>
        /\ file = ExpectedFile(stocks)
        /\ (prev.stocks = stocks => file = prev.file)

\* C8: once FetchStockData has returned, the response body was closed exactly
\* once if the GET returned a response (after the decode attempt, if there
\* was one) and never if the GET failed; it is never closed twice.
C8_BodyClosed ==
    /\ closeCount <= 1
    /\ bodyState = "open" => pc \in {"status", "decode"}
    /\ pc \notin {"main", "status", "decode"} =>
          /\ fetchErr = "transport" => (closeCount = 0 /\ bodyState = "none" /\ At("close") = {})
          /\ fetchErr # "transport" => (closeCount = 1 /\ bodyState = "closed")
          /\ fetchErr \in {"none", "decode"} =>
                /\ At("decode") # {}
                /\ \A d \in At("decode") : \A c \in At("close") : d < c

C8_Witness ==
    /\ pc = "fetched"
    /\ fetchErr = "decode"
    /\ closeCount = 1
    /\ bodyState = "closed"

\* the save is about to be attempted or has been attempted
SaveAttempted == pc = "save" \/ At("save") # {}

C10_VariantsEquivalent ==
    (/\ pc = "exited" /\ prev.valid
     /\ prev.variant # variant
     /\ prev.fetchErr = "none" /\ fetchErr = "none"
     /\ prev.stocks = stocks
     /\ prev.faults = faults) =>
        /\ exitCode = prev.exitCode
        /\ exitCode = 0 => (file = prev.file /\ file.sheet = "Stock Data")

\* Every started run exits (checked under FairSpec).
Terminates == (pc = "main") ~> (pc = "exited")

====
